---- MODULE Spec2Model ----
(***************************************************************************)
(* Model of SSEMCPClient (src/mcp_client_lib/mcp_client.py): the SSE       *)
(* session client with its background stream reader, the polled connect(), *)
(* disconnect(), the RPC layer (initialize, list_tools, call_tool) and     *)
(* health_check(); and of the advanced chat graph of src/main.py.          *)
(*                                                                         *)
(* The client runs on one asyncio event loop: a step of the model is the   *)
(* code a task runs between two awaits.  Strings that the code cuts apart  *)
(* (the endpoint uri) are sequences of tokens; None is the token sequence  *)
(* NoneVal, the empty string is <<>>.                                      *)
(***************************************************************************)
EXTENDS Integers, Sequences, FiniteSets, TLC

(* ---- bounds of the model ---- *)
MaxReaders == 2      \* connect() calls made on one client (one reader task each)
MaxWait == 2         \* polls of one connect() (max_wait / 0.1 in the code)
MaxCount == 3          \* largest conversation_count an invocation starts with
MaxMessages == 8       \* longest messages list of an invocation

VARIABLES
    state,             \* self.state
    session_id,        \* self.session_id
    message_endpoint,  \* self.message_endpoint
    tools,             \* self.tools (names, in order)
    initialized,       \* self.initialized
    closed,            \* self.http_client has been closed
    sse_task,          \* self._sse_task: 0 is None, else the reader's number
    readers,           \* the reader tasks created so far
    nreaders,          \* how many reader tasks connect() has created
    caller,            \* position of the caller in connect()/disconnect()
    rpc,               \* the RPC call in flight, if any
    ev,                \* what the last step was (history)
    connOk,            \* history: connect() returned True since the last disconnect()
    initOk,            \* history: initialize() returned True since the last disconnect()
    sid_src,           \* history: reader whose event wrote session_id (0: none)
    on_connection_state_change,  \* a state-change handler is registered
    on_notification,   \* a notification handler is registered
    state_cb,          \* history: the arguments the state-change handler was
                       \* called with during the last step, in order
    chat,              \* main.py: the advanced chat graph, its AdvancedChatState
                       \* and the node that runs next
    quick              \* the quick_tool_call in progress, if any: the call it
                       \* is at and what its calls returned

vars == <<state, session_id, message_endpoint, tools, initialized, closed,
          sse_task, readers, nreaders, caller, rpc, ev, connOk, initOk,
          sid_src, on_connection_state_change, on_notification, state_cb, chat, quick>>

(* the variables of the client *)
client == <<state, session_id, message_endpoint, tools, initialized, closed,
            sse_task, readers, nreaders, caller, rpc, ev, connOk, initOk,
            sid_src, on_connection_state_change, on_notification, state_cb>>

handlers == <<on_connection_state_change, on_notification>>

fields == <<state, session_id, message_endpoint, tools, initialized>>

(* ---- values ---- *)
DISCONNECTED == "disconnected"
CONNECTING == "connecting"
CONNECTED == "connected"
ERROR == "error"
ConnectionState == {DISCONNECTED, CONNECTING, CONNECTED, ERROR}

NoneVal == <<"None">>
Truthy(v) == v # NoneVal /\ v # <<>>

ServerUrl == "http://server"

ReaderIds == 1..MaxReaders

(* ---- strings as token sequences ---- *)
Contains(s, tok) == \E i \in 1..Len(s) : s[i] = tok

IndexOf(s, tok) ==
    IF Contains(s, tok)
    THEN CHOOSE i \in 1..Len(s) : s[i] = tok /\ \A j \in 1..(i-1) : s[j] # tok
    ELSE 0

RECURSIVE Split(_, _)
Split(s, tok) ==
    LET i == IndexOf(s, tok) IN
    IF i = 0 THEN <<s>>
    ELSE <<SubSeq(s, 1, i-1)>> \o Split(SubSeq(s, i+1, Len(s)), tok)

(* the session id the server hands out on the stream of reader r *)
SidA == [r \in 1..8 |-> <<"a1", "a2", "a3", "a4", "a5", "a6", "a7", "a8">>[r]]
SidsOf(r) == {SidA[r]}

(* the uri parameter of an endpoint event on the stream of reader r *)
UrisOf(r) ==
    UNION {{ <<"/messages", "?", "sessionId=", s>>,
             <<"/messages", "?", "sessionId=", s, "&", "v=1">>,
             <<"/messages", "?", "v=1", "&", "sessionId=", s>>,
             <<"/messages", "?", "sessionId=", s, "&", "sessionId=", "zz">> }
           : s \in SidsOf(r)}
    \cup { <<"/messages", "?", "sessionId=">>,
           <<"/messages">>,
           <<"/messages", "?", "v=1">> }

(* a slip: the rest of the uri after "sessionId=", not cut at "&" *)
SessionIdOfUncut(uri) == Split(uri, "sessionId=")[2]

(* uri.split("sessionId=")[1].split("&")[0] *)
SessionIdOf(uri) == Split(Split(uri, "sessionId=")[2], "&")[1]

(* f"{self.server_url}/messages?sessionId={self.session_id}" *)
MessageEndpointOf(sid) == <<ServerUrl, "/messages", "?", "sessionId=">> \o sid

(* ---- history record of a step ---- *)

(* no response value: _send_request did not return in this step *)
NoResponse ==
    [returned |-> FALSE, id |-> "none", result |-> FALSE, error |-> "absent", tools |-> <<>>]

Ev(op, call, ret, res, post) ==
    [op |-> op, call |-> call, ret |-> ret, res |-> res, post |-> post, info |-> "none",
     resp |-> NoResponse, data |-> "none", calls |-> <<>>]

(* the same with a note: the state disconnect() was called in, or whether,
   during this connect(), an endpoint event with a session id was dispatched
   (and whether a line of invalid JSON came before it on the stream) and
   whether the server closed the stream *)
EvInfo(op, call, ret, res, post, info) ==
    [op |-> op, call |-> call, ret |-> ret, res |-> res, post |-> post, info |-> info,
     resp |-> NoResponse, data |-> "none", calls |-> <<>>]

SeenInfo(c) ==
    IF c.seen THEN (IF c.bad THEN "endpoint_seen_after_badjson" ELSE "endpoint_seen")
    ELSE IF c.eof THEN "no_endpoint_eof" ELSE "no_endpoint"

ReaderStep == Ev("reader", FALSE, FALSE, "none", FALSE)

(* a reader step in which the stream failed *)
StreamError == EvInfo("reader", FALSE, FALSE, "none", FALSE, "stream_error")

(* the same, raised by the closed http client before any request was sent,
   with a server that would have accepted the stream *)
StreamErrorClosedClient ==
    EvInfo("reader", FALSE, FALSE, "server_accepts", FALSE, "stream_error")

(* a reader step in which _handle_event ran on an event of the given kind:
   the data of the event, if it is a notification, and the arguments of the
   calls of the notification handler that the step made *)
Dispatched(kind, data, calls) ==
    [EvInfo("reader", FALSE, FALSE, kind, FALSE, IF calls # <<>> THEN "notified" ELSE "none")
       EXCEPT !.data = data, !.calls = calls]

Idle == [pc |-> "idle", waited |-> 0, from |-> "none", seen |-> FALSE, eof |-> FALSE,
         bad |-> FALSE]
NoReader == "none"
(* no call in flight; answer is what the server has for the GET of a
   health_check in flight *)
NoRpc == [pc |-> "idle", op |-> "none", answer |-> "none"]

(* a slip: _update_state without the `if self.state != new_state` test *)
UpdateStateResultUnguarded(cur, handler, new_state) ==
    [state |-> new_state, calls |-> IF handler THEN <<new_state>> ELSE <<>>]

(* _update_state(new_state) on a client in state cur: the state afterwards
   and the calls of the state-change handler it made *)
UpdateStateResult(cur, handler, new_state) ==
    IF cur # new_state
    THEN [state |-> new_state, calls |-> IF handler THEN <<new_state>> ELSE <<>>]
    ELSE [state |-> cur, calls |-> <<>>]

(* a slip: _update_state that assigns and never calls the handler *)
UpdateStateSilent(new_state) ==
    /\ state' = new_state
    /\ state_cb' = <<>>

(* self._update_state(new_state) *)
UpdateState(new_state) ==
    LET u == UpdateStateResult(state, on_connection_state_change, new_state) IN
    /\ state' = u.state
    /\ state_cb' = u.calls

(* the two except clauses a failing stream runs through, _handle_sse_events'
   and then _process_sse_events': each calls _update_state(ERROR) *)
UpdateStateTwice(new_state) ==
    LET u1 == UpdateStateResult(state, on_connection_state_change, new_state)
        u2 == UpdateStateResult(u1.state, on_connection_state_change, new_state)
    IN /\ state' = u2.state
       /\ state_cb' = u1.calls \o u2.calls

(* a step that does not call _update_state *)
NoUpdate == state' = state /\ state_cb' = <<>>

(* ---- quick_tool_call ---- *)

(* no quick_tool_call in progress *)
NoQuick == [pc |-> "none", connected |-> FALSE, initialized |-> FALSE,
            outcome |-> "none"]

(* a slip: the body without the `async with`, so that an exception of
   call_tool leaves quick_tool_call at once *)
QuickAfterLeaksOnRaise(q, e) ==
    IF q.pc = "connect" /\ e.op = "connect" /\ e.ret
    THEN [q EXCEPT !.pc = "initialize", !.connected = (e.res = "true")]
    ELSE IF q.pc = "initialize" /\ e.op = "initialize" /\ e.ret
    THEN [q EXCEPT !.pc = "call_tool", !.initialized = (e.res = "true")]
    ELSE IF q.pc = "call_tool" /\ e.op = "call_tool" /\ e.ret
    THEN [q EXCEPT !.pc = IF e.res = "ok" THEN "exit" ELSE "left",
                   !.outcome = IF e.res = "ok" THEN "result" ELSE "raised"]
    ELSE IF q.pc = "exit" /\ e.op = "disconnect" /\ e.ret
    THEN [q EXCEPT !.pc = "left"]
    ELSE q

(* where quick_tool_call is after a step e of its client: connect() has
   returned (its value is not looked at) and initialize() is next; that has
   returned (not looked at either) and call_tool() is next; that has
   returned or raised, which ends the body of the `async with`, and
   __aexit__ awaits disconnect(); that has returned and control leaves, with
   the result or the exception of the body *)
QuickAfter(q, e) ==
    IF q.pc = "connect" /\ e.op = "connect" /\ e.ret
    THEN [q EXCEPT !.pc = "initialize", !.connected = (e.res = "true")]
    ELSE IF q.pc = "initialize" /\ e.op = "initialize" /\ e.ret
    THEN [q EXCEPT !.pc = "call_tool", !.initialized = (e.res = "true")]
    ELSE IF q.pc = "call_tool" /\ e.op = "call_tool" /\ e.ret
    THEN [q EXCEPT !.pc = "exit",
                   !.outcome = IF e.res = "ok" THEN "result" ELSE "raised"]
    ELSE IF q.pc = "exit" /\ e.op = "disconnect" /\ e.ret
    THEN [q EXCEPT !.pc = "left"]
    ELSE q

(* every step of the client moves the quick_tool_call that is using it *)
QuickTracked == quick' = QuickAfter(quick, ev')

(* ---- main.py: the advanced chat graph ---- *)

(* the compiled graph before its first invocation. messages holds the kind
   of each message; n is the conversation_count the invocation started
   with and failed whether a node of it caught an exception (history) *)
NoInvocation ==
    [node |-> "none", messages |-> <<>>, conversation_count |-> 0, n |-> 0,
     failed |-> FALSE]

Init ==
    /\ state = DISCONNECTED
    /\ session_id = NoneVal
    /\ message_endpoint = NoneVal
    /\ tools = <<>>
    /\ initialized = FALSE
    /\ closed = FALSE
    /\ sse_task = 0
    /\ readers = [r \in ReaderIds |-> NoReader]
    /\ nreaders = 0
    /\ caller = Idle
    /\ rpc = NoRpc
    /\ ev = Ev("init", FALSE, FALSE, "none", FALSE)
    /\ connOk = FALSE
    /\ initOk = FALSE
    /\ sid_src = 0
    /\ on_connection_state_change = FALSE
    /\ on_notification = FALSE
    /\ state_cb = <<>>
    /\ chat = NoInvocation
    /\ quick = NoQuick

(* set_connection_state_handler(handler) *)
SetConnectionStateHandler ==
    /\ caller.pc = "idle"
    /\ ~on_connection_state_change
    /\ on_connection_state_change' = TRUE
    /\ ev' = Ev("set_connection_state_handler", TRUE, TRUE, "none", FALSE)
    /\ NoUpdate
    /\ UNCHANGED <<session_id, message_endpoint, tools, initialized, closed,
                   sse_task, readers, nreaders, caller, rpc, connOk, initOk,
                   sid_src, on_notification, chat>> /\ QuickTracked

(* set_notification_handler(handler) *)
SetNotificationHandler ==
    /\ caller.pc = "idle"
    /\ ~on_notification
    /\ on_notification' = TRUE
    /\ ev' = Ev("set_notification_handler", TRUE, TRUE, "none", FALSE)
    /\ NoUpdate
    /\ UNCHANGED <<session_id, message_endpoint, tools, initialized, closed,
                   sse_task, readers, nreaders, caller, rpc, connOk, initOk,
                   sid_src, on_connection_state_change, chat>> /\ QuickTracked

(* a task that was created and has not run its first step yet *)
NoCreated == \A r \in ReaderIds : readers[r] # "created"

Done(r) == readers[r] = "done"
Alive(r) == readers[r] \in {"created", "opening", "reading", "cancelling"}

(* ======================= connect() ======================= *)

(* connect(): create the reader task, then the first test of the wait loop.
   With a session id already set the loop body never runs and connect()
   returns True without yielding to the event loop. *)
Connect ==
    /\ caller.pc = "idle"
    /\ rpc.pc = "idle"
    /\ nreaders < MaxReaders
    /\ LET r == nreaders + 1 IN
        /\ readers' = [readers EXCEPT ![r] = "created"]
        /\ nreaders' = r
        /\ sse_task' = r
    /\ IF Truthy(session_id)
       THEN /\ caller' = Idle
            /\ connOk' = TRUE
            /\ ev' = EvInfo("connect", TRUE, TRUE, "true", FALSE, SeenInfo(Idle))
       ELSE /\ caller' = [Idle EXCEPT !.pc = "connect_sleep"]
            /\ connOk' = connOk
            /\ ev' = Ev("connect", TRUE, FALSE, "none", FALSE)
    /\ state_cb' = <<>>
    /\ UNCHANGED <<fields, closed, rpc, initOk, sid_src, handlers, chat>> /\ QuickTracked

(* a slip: the wait loop without `waited += 0.1` *)
ConnectPollUncounted ==
    /\ caller.pc = "connect_sleep"
    /\ NoCreated
    /\ IF ~Truthy(session_id)
       THEN /\ caller' = caller
            /\ ev' = Ev("connect", FALSE, FALSE, "none", FALSE)
            /\ NoUpdate
            /\ UNCHANGED connOk
       ELSE /\ caller' = Idle
            /\ connOk' = TRUE
            /\ ev' = EvInfo("connect", FALSE, TRUE, "true", FALSE, SeenInfo(caller))
            /\ NoUpdate
    /\ UNCHANGED <<session_id, message_endpoint, tools, initialized, closed,
                   sse_task, readers, nreaders, rpc, initOk, sid_src, handlers, chat>> /\ QuickTracked

(* connect(): asyncio.sleep(0.1) is over; waited += 0.1; the loop test; then
   either the next sleep, the raise caught by connect() itself, or True *)
ConnectPoll ==
    /\ caller.pc = "connect_sleep"
    /\ NoCreated
    /\ LET w == caller.waited + 1 IN
       IF ~Truthy(session_id) /\ w < MaxWait
       THEN /\ caller' = [caller EXCEPT !.waited = w]
            /\ ev' = Ev("connect", FALSE, FALSE, "none", FALSE)
            /\ NoUpdate
            /\ UNCHANGED connOk
       ELSE IF ~Truthy(session_id)
       THEN /\ UpdateState(ERROR)
            /\ caller' = Idle
            /\ ev' = EvInfo("connect", FALSE, TRUE, "false", FALSE, SeenInfo(caller))
            /\ UNCHANGED connOk
       ELSE /\ caller' = Idle
            /\ connOk' = TRUE
            /\ ev' = EvInfo("connect", FALSE, TRUE, "true", FALSE, SeenInfo(caller))
            /\ NoUpdate
    /\ UNCHANGED <<session_id, message_endpoint, tools, initialized, closed,
                   sse_task, readers, nreaders, rpc, initOk, sid_src, handlers, chat>> /\ QuickTracked

(* ======================= the reader task ======================= *)

(* first step of _process_sse_events / _handle_sse_events: CONNECTING, then
   the task waits for the response of the streaming GET *)
ReaderStart(r) ==
    /\ readers[r] = "created"
    /\ UpdateState(CONNECTING)
    /\ readers' = [readers EXCEPT ![r] = "opening"]
    /\ ev' = ReaderStep
    /\ UNCHANGED <<session_id, message_endpoint, tools, initialized, closed,
                   sse_task, nreaders, caller, rpc, connOk, initOk, sid_src,
                   handlers, chat>> /\ QuickTracked

(* the GET is answered: a 2xx response opens the stream (CONNECTED); a
   refused connection, a non-2xx status or a closed http client raise, and
   both except clauses set ERROR.  A closed client can only raise. *)
ReaderOpened(r, ok) ==
    /\ readers[r] = "opening"
    /\ IF ok /\ ~closed
       THEN /\ UpdateState(CONNECTED)
            /\ readers' = [readers EXCEPT ![r] = "reading"]
            /\ ev' = ReaderStep
       ELSE /\ UpdateStateTwice(ERROR)
            /\ readers' = [readers EXCEPT ![r] = "done"]
            /\ ev' = IF ok THEN StreamErrorClosedClient ELSE StreamError
    /\ UNCHANGED <<session_id, message_endpoint, tools, initialized, closed,
                   sse_task, nreaders, caller, rpc, connOk, initOk, sid_src,
                   handlers, chat>> /\ QuickTracked

(* _handle_event for method == "endpoint" with a params object *)
HandleEndpoint(r, uri) ==
    IF Contains(uri, "sessionId=")
    THEN /\ session_id' = SessionIdOf(uri)
         /\ message_endpoint' = MessageEndpointOf(SessionIdOf(uri))
         /\ sid_src' = r
         /\ caller' = IF caller.pc = "connect_sleep" /\ Truthy(SessionIdOf(uri))
                      THEN [caller EXCEPT !.seen = TRUE]
                      ELSE caller
    ELSE UNCHANGED <<session_id, message_endpoint, sid_src, caller>>

(* the kinds of line a stream can carry, other than an endpoint event: a
   line that is not a data line or whose payload is not JSON; a
   notifications/message event, a ping, an event with another method; and
   the events _handle_event raises on: a JSON value that is not an object
   (event.get), an endpoint event whose params is not an object
   (params.get), a notifications/message event whose params is not an
   object or whose level is not a string (params.get, level.upper) *)
SkippedLines == {"nondata", "badjson"}
PlainEvents == {"notification", "ping", "other"}
RaisingEvents == {"nonobject", "badparams", "badnotification"}

(* the data member of the params of a notifications/message event *)
NotificationData == {"n1", "n2"}

(* a slip: every event other than endpoint is passed to the notification
   handler *)
HandlerCallsForAll(kind, data, handler) ==
    IF handler THEN <<data>> ELSE <<>>

(* a slip: the handler called without the `if self.on_notification` test *)
HandlerCallsUnguarded(kind, data, handler) ==
    IF kind = "notification" THEN <<data>> ELSE <<>>

(* a slip: the event passed to the handler twice *)
HandlerCallsTwice(kind, data, handler) ==
    IF kind = "notification" /\ handler THEN <<data, data>> ELSE <<>>

(* the calls of the notification handler that _handle_event makes for an
   event that it does not raise on: `if self.on_notification:
   self.on_notification(event)` in the notifications/message branch only *)
HandlerCalls(kind, data, handler) ==
    IF kind = "notification" /\ handler THEN <<data>> ELSE <<>>

(* the notifications on which the registered handler raises an Exception *)
HandlerRaisesOn == {"n3"}

(* self.on_notification(event) raises: the exception leaves _handle_event
   and reaches the except clause of _process_sse_events *)
HandlerRaises(kind, data, handler) ==
    kind = "notification" /\ handler /\ data \in HandlerRaisesOn

(* a slip: json.loads without the `except json.JSONDecodeError` clause *)
ReaderLineBadJsonFatal(r, kind, arg) ==
    /\ readers[r] = "reading"
    /\ ~closed
    /\ IF kind = "endpoint"
       THEN /\ HandleEndpoint(r, arg)
            /\ NoUpdate
            /\ ev' = ReaderStep
            /\ UNCHANGED readers
       ELSE IF kind \in RaisingEvents \cup {"badjson"}
               \/ HandlerRaises(kind, arg, on_notification)
       THEN /\ UpdateState(ERROR)
            /\ readers' = [readers EXCEPT ![r] = "done"]
            /\ ev' = IF kind = "badjson" THEN ReaderStep
                     ELSE Dispatched(kind, IF kind = "notification" THEN arg ELSE "none",
                                     HandlerCalls(kind, arg, on_notification))
            /\ caller' = IF kind = "badjson" /\ caller.pc = "connect_sleep"
                            /\ r = sse_task /\ ~caller.seen
                         THEN [caller EXCEPT !.bad = TRUE]
                         ELSE caller
            /\ UNCHANGED <<session_id, message_endpoint, sid_src>>
       ELSE /\ NoUpdate
            /\ ev' = IF kind \in PlainEvents
                     THEN Dispatched(kind, IF kind = "notification" THEN arg ELSE "none",
                                     HandlerCalls(kind, arg, on_notification))
                     ELSE ReaderStep
            /\ caller' = IF kind = "badjson" /\ caller.pc = "connect_sleep"
                            /\ r = sse_task /\ ~caller.seen
                         THEN [caller EXCEPT !.bad = TRUE]
                         ELSE caller
            /\ UNCHANGED <<readers, session_id, message_endpoint, sid_src>>
    /\ UNCHANGED <<tools, initialized, closed, sse_task, nreaders, rpc,
                   connOk, initOk, handlers, chat>> /\ QuickTracked

(* one line of the stream: the loop body of _handle_sse_events and, for a
   line that parses, _handle_event. arg is the uri of an endpoint event or
   the data of a notification. An exception of _handle_event leaves the
   loop of _process_sse_events, whose except clause calls
   _update_state(ERROR), and the task ends *)
ReaderLine(r, kind, arg) ==
    /\ readers[r] = "reading"
    /\ ~closed
    /\ IF kind = "endpoint"
       THEN /\ HandleEndpoint(r, arg)
            /\ NoUpdate
            /\ ev' = ReaderStep
            /\ UNCHANGED readers
       ELSE IF kind \in RaisingEvents \/ HandlerRaises(kind, arg, on_notification)
       THEN /\ UpdateState(ERROR)
            /\ readers' = [readers EXCEPT ![r] = "done"]
            /\ ev' = Dispatched(kind, IF kind = "notification" THEN arg ELSE "none",
                                HandlerCalls(kind, arg, on_notification))
            /\ UNCHANGED <<session_id, message_endpoint, sid_src, caller>>
       ELSE /\ NoUpdate
            /\ ev' = IF kind \in PlainEvents
                     THEN Dispatched(kind, IF kind = "notification" THEN arg ELSE "none",
                                     HandlerCalls(kind, arg, on_notification))
                     ELSE ReaderStep
            /\ caller' = IF kind = "badjson" /\ caller.pc = "connect_sleep"
                            /\ r = sse_task /\ ~caller.seen
                         THEN [caller EXCEPT !.bad = TRUE]
                         ELSE caller
            /\ UNCHANGED <<readers, session_id, message_endpoint, sid_src>>
    /\ UNCHANGED <<tools, initialized, closed, sse_task, nreaders, rpc,
                   connOk, initOk, handlers, chat>> /\ QuickTracked

(* the server closes the stream: aiter_lines ends, the task returns *)
ReaderEOF(r) ==
    /\ readers[r] = "reading"
    /\ readers' = [readers EXCEPT ![r] = "done"]
    /\ caller' = IF caller.pc = "connect_sleep" /\ r = sse_task
                 THEN [caller EXCEPT !.eof = TRUE]
                 ELSE caller
    /\ ev' = ReaderStep
    /\ state_cb' = <<>>
    /\ UNCHANGED <<fields, closed, sse_task, nreaders, rpc, connOk, initOk, sid_src,
                   handlers, chat>> /\ QuickTracked

(* a slip: the transport error ends the reader without _update_state(ERROR) *)
ReaderErrorSwallowed(r) ==
    /\ readers[r] = "reading"
    /\ NoUpdate
    /\ readers' = [readers EXCEPT ![r] = "done"]
    /\ ev' = StreamError
    /\ UNCHANGED <<session_id, message_endpoint, tools, initialized, closed,
                   sse_task, nreaders, caller, rpc, connOk, initOk, sid_src,
                   handlers, chat>> /\ QuickTracked

(* a transport error while reading: both except clauses set ERROR *)
ReaderError(r) ==
    /\ readers[r] = "reading"
    /\ UpdateStateTwice(ERROR)
    /\ readers' = [readers EXCEPT ![r] = "done"]
    /\ ev' = StreamError
    /\ UNCHANGED <<session_id, message_endpoint, tools, initialized, closed,
                   sse_task, nreaders, caller, rpc, connOk, initOk, sid_src,
                   handlers, chat>> /\ QuickTracked

(* a slip: CancelledError caught by the `except Exception` clauses *)
ReaderCancelledAsError(r) ==
    /\ readers[r] = "cancelling"
    /\ UpdateStateTwice(ERROR)
    /\ readers' = [readers EXCEPT ![r] = "done"]
    /\ ev' = ReaderStep
    /\ UNCHANGED <<session_id, message_endpoint, tools, initialized, closed,
                   sse_task, nreaders, caller, rpc, connOk, initOk, sid_src,
                   handlers, chat>> /\ QuickTracked

(* CancelledError is thrown into the task at its await (or before its first
   step); it is not an Exception, so neither except clause runs *)
ReaderCancelled(r) ==
    /\ readers[r] = "cancelling"
    /\ readers' = [readers EXCEPT ![r] = "done"]
    /\ ev' = ReaderStep
    /\ state_cb' = <<>>
    /\ UNCHANGED <<fields, closed, sse_task, nreaders, caller, rpc, connOk,
                   initOk, sid_src, handlers, chat>> /\ QuickTracked

(* ======================= disconnect() ======================= *)

(* a slip: the tail of disconnect() without `self.initialized = False` *)
DisconnectTailKeepsInitialized(call, from) ==
    /\ UpdateState(DISCONNECTED)
    /\ session_id' = NoneVal
    /\ message_endpoint' = NoneVal
    /\ tools' = <<>>
    /\ caller' = Idle
    /\ connOk' = FALSE
    /\ initOk' = FALSE
    /\ sid_src' = 0
    /\ ev' = EvInfo("disconnect", call, TRUE,
                    IF ev.op = "disconnect" /\ ev.ret THEN "repeat" ELSE "none",
                    FALSE, from)
    /\ UNCHANGED initialized

(* disconnect() after aclose(): DISCONNECTED, the fields are cleared,
   disconnect() returns.  call: this is also the step that called it; from:
   the state it was called in.  A disconnect() called in the state the
   previous disconnect() left is noted as "repeat". *)
DisconnectTail(call, from) ==
    /\ UpdateState(DISCONNECTED)
    /\ session_id' = NoneVal
    /\ message_endpoint' = NoneVal
    /\ initialized' = FALSE
    /\ tools' = <<>>
    /\ caller' = Idle
    /\ connOk' = FALSE
    /\ initOk' = FALSE
    /\ sid_src' = 0
    /\ ev' = EvInfo("disconnect", call, TRUE,
                    IF ev.op = "disconnect" /\ ev.ret THEN "repeat" ELSE "none",
                    FALSE, from)

(* disconnect(): cancel the task in _sse_task and wait for it; with no task
   to wait for, go on to http_client.aclose(), which marks the client closed
   and waits for the transport to close.  On a client that is closed already
   aclose() returns without yielding, and disconnect() runs to its end. *)
Disconnect ==
    /\ caller.pc = "idle"
    /\ IF sse_task # 0 /\ ~Done(sse_task)
       THEN /\ readers' = [readers EXCEPT ![sse_task] = "cancelling"]
            /\ caller' = [Idle EXCEPT !.pc = "disc_join", !.from = state]
            /\ ev' = Ev("disconnect", TRUE, FALSE, "none", FALSE)
            /\ state_cb' = <<>>
            /\ UNCHANGED <<fields, closed, connOk, initOk, sid_src>>
       ELSE IF ~closed
       THEN /\ closed' = TRUE
            /\ caller' = [Idle EXCEPT !.pc = "disc_close", !.from = state]
            /\ ev' = Ev("disconnect", TRUE, FALSE, "none", FALSE)
            /\ state_cb' = <<>>
            /\ UNCHANGED <<fields, readers, connOk, initOk, sid_src>>
       ELSE /\ DisconnectTail(TRUE, state)
            /\ UNCHANGED <<closed, readers>>
    /\ UNCHANGED <<sse_task, nreaders, rpc, handlers, chat>> /\ QuickTracked

(* await self._sse_task is over (CancelledError swallowed); aclose() begins,
   or, on a client that is closed already, returns at once *)
DisconnectJoined ==
    /\ caller.pc = "disc_join"
    /\ Done(sse_task)
    /\ IF ~closed
       THEN /\ closed' = TRUE
            /\ caller' = [caller EXCEPT !.pc = "disc_close"]
            /\ ev' = Ev("disconnect", FALSE, FALSE, "none", FALSE)
            /\ state_cb' = <<>>
            /\ UNCHANGED <<fields, connOk, initOk, sid_src>>
       ELSE /\ DisconnectTail(FALSE, caller.from)
            /\ UNCHANGED closed
    /\ UNCHANGED <<sse_task, readers, nreaders, rpc, handlers, chat>> /\ QuickTracked

(* aclose() is over: the rest of disconnect() *)
DisconnectFinish ==
    /\ caller.pc = "disc_close"
    /\ DisconnectTail(FALSE, caller.from)
    /\ UNCHANGED <<closed, sse_task, readers, nreaders, rpc, handlers, chat>> /\ QuickTracked

(* ======================= the RPC layer ======================= *)

RpcOps == {"initialize", "list_tools", "call_tool"}
ToolNames == {"add_numbers", "no_such_tool"}
ToolArgs == {"numbers"}

(* the entries of a tools array: wf is FALSE for an entry that lacks one of
   the keys name, description, inputSchema *)
ToolEntry(n, wf) == [name |-> n, wf |-> wf]
ToolArrays ==
    { <<>>,
      <<ToolEntry("find_max", TRUE), ToolEntry("add_numbers", TRUE)>>,
      <<ToolEntry("add_numbers", TRUE), ToolEntry("find_max", FALSE)>> }

(* the result member of a response body: absent, an object without a tools
   key, or an object with a tools array *)
NoResult == [present |-> FALSE, has_tools |-> FALSE, tools |-> <<>>]
ResultValues ==
    {NoResult, [present |-> TRUE, has_tools |-> FALSE, tools |-> <<>>]}
    \cup {[present |-> TRUE, has_tools |-> TRUE, tools |-> ts] : ts \in ToolArrays}

(* the error member: absent (None), an empty object, or a non-empty object,
   the server's error payload *)
ErrorPayloads == {"unknown_tool", "invalid_params"}
ErrorValues == {"absent", "empty"} \cup ErrorPayloads

(* what comes back for a POST: a failure of the exchange, or a JSON object.
   The id member of the object is the id of the request (the uuid4 that
   _send_request made for it) or another value. *)
FailureKinds == {"network", "status", "notjson", "nonobject"}
Responses ==
    {[kind |-> k, id |-> "same", error |-> "absent", result |-> NoResult] : k \in FailureKinds}
    \cup {[kind |-> "body", id |-> "same", error |-> e, result |-> res] :
            e \in ErrorValues, res \in ResultValues}
    \cup {[kind |-> "body", id |-> "other", error |-> "absent",
           result |-> [present |-> TRUE, has_tools |-> TRUE, tools |-> ts]] :
            ts \in {<<ToolEntry("find_max", TRUE), ToolEntry("add_numbers", TRUE)>>}}

(* `if response.error` *)
ErrorSet(resp) == resp.error \in ErrorPayloads

(* the MCPResponse that _send_request builds from a JSON object: id is the
   id member, result is whether the result member is there (not None), error
   is the error member *)
MCPResponseOf(resp) ==
    [returned |-> TRUE, id |-> resp.id, result |-> resp.result.present,
     error |-> resp.error, tools |-> <<>>]

(* the step's record, with the response value _send_request returned *)
WithResponse(e, resp) == [e EXCEPT !.resp = MCPResponseOf(resp)]

(* a slip: call_tool() without the `if not self.initialized` test *)
RpcCallToolUngated(op, name, args) ==
    /\ rpc.pc = "idle"
    /\ caller.pc = "idle"
    /\ IF op = "list_tools" /\ ~initialized
       THEN /\ ev' = Ev(op, TRUE, TRUE, "raise_not_initialized", FALSE)
            /\ UNCHANGED rpc
       ELSE IF ~Truthy(message_endpoint)
       THEN /\ ev' = Ev(op, TRUE, TRUE,
                        IF op = "initialize" THEN "false" ELSE "raise_not_connected", FALSE)
            /\ UNCHANGED rpc
       ELSE IF closed
       THEN /\ ev' = Ev(op, TRUE, TRUE,
                        IF op = "initialize" THEN "false" ELSE "raise_transport", FALSE)
            /\ UNCHANGED rpc
       ELSE /\ rpc' = [pc |-> "posted", op |-> op, answer |-> "none"]
            /\ ev' = Ev(op, TRUE, FALSE, "none", TRUE)
    /\ state_cb' = <<>>
    /\ UNCHANGED <<fields, closed, sse_task, readers, nreaders, caller, connOk,
                   initOk, sid_src, handlers, chat>> /\ QuickTracked

(* the call of initialize / list_tools / call_tool up to the POST: the
   initialized test, the message_endpoint test of _send_request, and
   http_client.post, which raises at once on a closed client *)
RpcCall(op, name, args) ==
    /\ rpc.pc = "idle"
    /\ caller.pc = "idle"
    /\ IF op # "initialize" /\ ~initialized
       THEN /\ ev' = Ev(op, TRUE, TRUE, "raise_not_initialized", FALSE)
            /\ UNCHANGED rpc
       ELSE IF ~Truthy(message_endpoint)
       THEN /\ ev' = Ev(op, TRUE, TRUE,
                        IF op = "initialize" THEN "false" ELSE "raise_not_connected", FALSE)
            /\ UNCHANGED rpc
       ELSE IF closed
       THEN /\ ev' = Ev(op, TRUE, TRUE,
                        IF op = "initialize" THEN "false" ELSE "raise_transport", FALSE)
            /\ UNCHANGED rpc
       ELSE /\ rpc' = [pc |-> "posted", op |-> op, answer |-> "none"]
            /\ ev' = Ev(op, TRUE, FALSE, "none", TRUE)
    /\ state_cb' = <<>>
    /\ UNCHANGED <<fields, closed, sse_task, readers, nreaders, caller, connOk,
                   initOk, sid_src, handlers, chat>> /\ QuickTracked

(* a slip: `self.initialized = True` before the test of response.error *)
InitializeReturnFlagFirst(resp) ==
    IF resp.kind # "body"
    THEN /\ ev' = EvInfo("initialize", FALSE, TRUE, "false", FALSE, "exception")
         /\ UNCHANGED <<initialized, initOk>>
    ELSE IF ErrorSet(resp)
    THEN /\ ev' = WithResponse(EvInfo("initialize", FALSE, TRUE, "false", FALSE,
                                      "error_response"), resp)
         /\ initialized' = TRUE
         /\ UNCHANGED initOk
    ELSE /\ initialized' = TRUE
         /\ initOk' = TRUE
         /\ ev' = WithResponse(Ev("initialize", FALSE, TRUE, "true", FALSE), resp)

(* initialize() after its POST is answered *)
InitializeReturn(resp) ==
    IF resp.kind # "body"
    THEN /\ ev' = EvInfo("initialize", FALSE, TRUE, "false", FALSE, "exception")
         /\ UNCHANGED <<initialized, initOk>>
    ELSE IF ErrorSet(resp)
    THEN /\ ev' = WithResponse(EvInfo("initialize", FALSE, TRUE, "false", FALSE,
                                      "error_response"), resp)
         /\ UNCHANGED <<initialized, initOk>>
    ELSE /\ initialized' = TRUE
         /\ initOk' = TRUE
         /\ ev' = WithResponse(Ev("initialize", FALSE, TRUE, "true", FALSE), resp)

(* `tools_data = response.result.get("tools", [])` *)
ToolsData(resp) == IF resp.result.has_tools THEN resp.result.tools ELSE <<>>

(* the names of the Tool values built from the entries of tools_data *)
ToolNamesOf(tools_data) == [i \in 1..Len(tools_data) |-> tools_data[i].name]

(* the history record of a list_tools() that read tools_data *)
WithToolsData(e, tools_data) == [e EXCEPT !.resp.tools = tools_data]

(* a slip: the new tools added to the cached list, in place of replacing it *)
ListToolsReturnAppends(resp) ==
    IF resp.kind # "body"
    THEN /\ ev' = Ev("list_tools", FALSE, TRUE, "raise_transport", FALSE)
         /\ UNCHANGED tools
    ELSE IF ErrorSet(resp)
    THEN /\ ev' = WithResponse(EvInfo("list_tools", FALSE, TRUE, "raise_protocol", FALSE,
                                      resp.error), resp)
         /\ UNCHANGED tools
    ELSE IF ~resp.result.present
            \/ \E i \in 1..Len(ToolsData(resp)) : ~ToolsData(resp)[i].wf
    THEN /\ ev' = WithResponse(Ev("list_tools", FALSE, TRUE, "raise_malformed", FALSE), resp)
         /\ UNCHANGED tools
    ELSE /\ tools' = tools \o ToolNamesOf(ToolsData(resp))
         /\ ev' = WithToolsData(WithResponse(Ev("list_tools", FALSE, TRUE, "ok", FALSE), resp),
                                ToolsData(resp))

(* a slip: the cached list emptied before the response is examined *)
ListToolsReturnClearsFirst(resp) ==
    IF resp.kind # "body"
    THEN /\ ev' = Ev("list_tools", FALSE, TRUE, "raise_transport", FALSE)
         /\ UNCHANGED tools
    ELSE IF ErrorSet(resp)
    THEN /\ ev' = WithResponse(EvInfo("list_tools", FALSE, TRUE, "raise_protocol", FALSE,
                                      resp.error), resp)
         /\ tools' = <<>>
    ELSE IF ~resp.result.present
            \/ \E i \in 1..Len(ToolsData(resp)) : ~ToolsData(resp)[i].wf
    THEN /\ ev' = WithResponse(Ev("list_tools", FALSE, TRUE, "raise_malformed", FALSE), resp)
         /\ tools' = <<>>
    ELSE /\ tools' = ToolNamesOf(ToolsData(resp))
         /\ ev' = WithToolsData(WithResponse(Ev("list_tools", FALSE, TRUE, "ok", FALSE), resp),
                                ToolsData(resp))

(* list_tools() after its POST is answered: the exception of _send_request
   re-raised, Exception(f"Failed to list tools: {response.error}"), the
   AttributeError of None.get or the KeyError of an entry that lacks a key,
   or self.tools assigned the list built from tools_data *)
ListToolsReturn(resp) ==
    IF resp.kind # "body"
    THEN /\ ev' = Ev("list_tools", FALSE, TRUE, "raise_transport", FALSE)
         /\ UNCHANGED tools
    ELSE IF ErrorSet(resp)
    THEN /\ ev' = WithResponse(EvInfo("list_tools", FALSE, TRUE, "raise_protocol", FALSE,
                                      resp.error), resp)
         /\ UNCHANGED tools
    ELSE IF ~resp.result.present
            \/ \E i \in 1..Len(ToolsData(resp)) : ~ToolsData(resp)[i].wf
    THEN /\ ev' = WithResponse(Ev("list_tools", FALSE, TRUE, "raise_malformed", FALSE), resp)
         /\ UNCHANGED tools
    ELSE /\ tools' = ToolNamesOf(ToolsData(resp))
         /\ ev' = WithToolsData(WithResponse(Ev("list_tools", FALSE, TRUE, "ok", FALSE), resp),
                                ToolsData(resp))

(* a slip: the error response raised as the failure of the exchange is,
   without the server's payload *)
CallToolReturnGenericFailure(resp) ==
    IF resp.kind # "body"
    THEN ev' = Ev("call_tool", FALSE, TRUE, "raise_transport", FALSE)
    ELSE IF ErrorSet(resp)
    THEN ev' = WithResponse(Ev("call_tool", FALSE, TRUE, "raise_transport", FALSE), resp)
    ELSE ev' = WithResponse(Ev("call_tool", FALSE, TRUE, "ok", FALSE), resp)

(* call_tool() after its POST is answered: the exception of _send_request
   re-raised, or Exception(f"Tool call failed: {response.error}"), or the
   result *)
CallToolReturn(resp) ==
    IF resp.kind # "body"
    THEN ev' = Ev("call_tool", FALSE, TRUE, "raise_transport", FALSE)
    ELSE IF ErrorSet(resp)
    THEN ev' = WithResponse(EvInfo("call_tool", FALSE, TRUE, "raise_protocol", FALSE,
                                   resp.error), resp)
    ELSE ev' = WithResponse(Ev("call_tool", FALSE, TRUE, "ok", FALSE), resp)

(* the POST of the call in flight is answered (or fails) *)
RpcResponse(resp) ==
    /\ rpc.pc = "posted"
    /\ rpc.op \in RpcOps
    /\ rpc' = NoRpc
    /\ CASE rpc.op = "initialize" ->
              InitializeReturn(resp) /\ UNCHANGED tools
         [] rpc.op = "list_tools" ->
              ListToolsReturn(resp) /\ UNCHANGED <<initialized, initOk>>
         [] rpc.op = "call_tool" ->
              CallToolReturn(resp) /\ UNCHANGED <<tools, initialized, initOk>>
    /\ NoUpdate
    /\ UNCHANGED <<session_id, message_endpoint, closed, sse_task,
                   readers, nreaders, caller, connOk, sid_src, handlers, chat>> /\ QuickTracked

(* ---- health_check ---- *)

(* what the server has for a GET /health: no answer at all, a non-2xx
   status, a 200 whose body is not JSON, a JSON body that is not an object,
   and an object with status "healthy", with another status, with none *)
HealthAnswers == {"unreachable", "status500", "notjson", "nonobject",
                  "healthy", "unhealthy", "nostatus"}

(* a slip: no try/except around the GET, so that its failure leaves
   health_check as an exception *)
HealthResultUncaught(answer) ==
    IF answer \in {"unreachable", "status500", "notjson", "nonobject"}
    THEN "raise_transport"
    ELSE IF answer = "healthy" THEN "true" ELSE "false"

(* the body of the try in health_check and its `except Exception: return
   False`: get() raises for no answer, raise_for_status() for a non-2xx,
   json() for a body that is not JSON, data.get for a body that is not an
   object *)
HealthResult(answer) ==
    IF answer \in {"unreachable", "status500", "notjson", "nonobject"}
    THEN "false"
    ELSE IF answer = "healthy" THEN "true" ELSE "false"

(* health_check() up to its GET, which raises at once on a closed client
   (caught: the call returns False without a request being sent); answer is
   what the server has for a GET /health at this time *)
HealthCheck(answer) ==
    /\ rpc.pc = "idle"
    /\ caller.pc = "idle"
    /\ IF closed
       THEN /\ ev' = EvInfo("health_check", TRUE, TRUE, "false", FALSE, answer)
            /\ UNCHANGED rpc
       ELSE /\ rpc' = [pc |-> "posted", op |-> "health_check", answer |-> answer]
            /\ ev' = Ev("health_check", TRUE, FALSE, "none", TRUE)
    /\ NoUpdate
    /\ UNCHANGED <<session_id, message_endpoint, tools, initialized, closed, sse_task,
                   readers, nreaders, caller, connOk, initOk, sid_src, handlers, chat>> /\ QuickTracked

(* health_check() after its GET is answered (or fails) *)
HealthCheckReturn ==
    /\ rpc.pc = "posted"
    /\ rpc.op = "health_check"
    /\ rpc' = NoRpc
    /\ ev' = EvInfo("health_check", FALSE, TRUE, HealthResult(rpc.answer), FALSE, rpc.answer)
    /\ NoUpdate
    /\ UNCHANGED <<session_id, message_endpoint, tools, initialized, closed, sse_task,
                   readers, nreaders, caller, connOk, initOk, sid_src, handlers, chat>> /\ QuickTracked

(* the steps of connect() and of disconnect(), and the steps of the reader
   tasks other than the dispatch of an event that is not an endpoint event *)
SessionNext ==
    \/ Connect
    \/ ConnectPoll
    \/ \E r \in ReaderIds : ReaderStart(r)
    \/ \E r \in ReaderIds, ok \in BOOLEAN : ReaderOpened(r, ok)
    \/ \E r \in ReaderIds : \E uri \in UrisOf(r) : ReaderLine(r, "endpoint", uri)
    \/ \E r \in ReaderIds : ReaderEOF(r)
    \/ \E r \in ReaderIds : ReaderError(r)
    \/ \E r \in ReaderIds : ReaderCancelled(r)
    \/ Disconnect
    \/ DisconnectJoined
    \/ DisconnectFinish

(* the same on a stream that carries every kind of line *)
StreamNext ==
    \/ SessionNext
    \/ \E r \in ReaderIds,
          kind \in SkippedLines \cup (PlainEvents \ {"notification"}) \cup RaisingEvents :
          ReaderLine(r, kind, "none")
    \/ \E r \in ReaderIds, data \in NotificationData : ReaderLine(r, "notification", data)

(* the lines of the streams of a client that makes RPC calls: the lines
   that are skipped, an event that is only logged and an event that
   _handle_event raises on *)
RpcStreamLines == SkippedLines \cup {"ping", "nonobject"}

(* the answers to GET /health of the server of such a client *)
RpcHealthAnswers == {"healthy", "unreachable"}

(* a client that makes RPC calls and health checks, with no handler
   registered *)
Next ==
    \/ SessionNext
    \/ \E r \in ReaderIds, kind \in RpcStreamLines : ReaderLine(r, kind, "none")
    \/ \E op \in RpcOps, name \in ToolNames, args \in ToolArgs : RpcCall(op, name, args)
    \/ \E resp \in Responses : RpcResponse(resp)
    \/ \E answer \in RpcHealthAnswers : HealthCheck(answer)
    \/ HealthCheckReturn

(* a client on which handlers are registered, at any time, and that makes
   no RPC call *)
HandlerNext ==
    \/ SetConnectionStateHandler
    \/ SetNotificationHandler
    \/ StreamNext
    \/ \E r \in ReaderIds, data \in HandlerRaisesOn : ReaderLine(r, "notification", data)

(* a client that makes health checks and no RPC call, with no handler
   registered *)
HealthNext ==
    \/ StreamNext
    \/ \E answer \in HealthAnswers : HealthCheck(answer)
    \/ HealthCheckReturn

(* a message of the messages list: its kind and the number of tool calls
   it carries (only an AIMessage has tool calls) *)
Message(kind, tool_calls) == [kind |-> kind, tool_calls |-> tool_calls]

(* what llm.invoke gives the chat node: an answer, an answer with one or
   two tool calls, or an exception *)
LlmOutcomes == {"answer", "one_tool_call", "two_tool_calls", "exception"}
ToolCallsOf(outcome) ==
    CASE outcome = "one_tool_call" -> 1
      [] outcome = "two_tool_calls" -> 2
      [] OTHER -> 0

(* should_continue: "tools" when the last message has tool calls, else END *)
should_continue(messages) ==
    IF messages[Len(messages)].tool_calls > 0 THEN "tools" ELSE "END"

(* graph.invoke(state) with one human message and conversation_count = n:
   the entry point is the chat node *)
GraphInvoke(n) ==
    /\ chat.node \in {"none", "END"}
    /\ chat' = [node |-> "advanced_chat", messages |-> <<Message("human", 0)>>,
                conversation_count |-> n, n |-> n, failed |-> FALSE]
    /\ UNCHANGED <<client, quick>>

(* advanced_chat_node and the conditional edge that follows it: the answer
   of the model is appended and conversation_count + 1 is returned, or, on
   an exception, an apology is appended and the count is returned as it was *)
advanced_chat_node(outcome) ==
    /\ chat.node = "advanced_chat"
    /\ ToolCallsOf(outcome) > 0 =>
          Len(chat.messages) + ToolCallsOf(outcome) + 2 <= MaxMessages
    /\ LET response == IF outcome = "exception" THEN Message("ai_error", 0)
                       ELSE Message("ai", ToolCallsOf(outcome))
           messages == Append(chat.messages, response)
       IN chat' = [chat EXCEPT
                     !.messages = messages,
                     !.conversation_count =
                         IF outcome = "exception" THEN chat.conversation_count
                         ELSE chat.conversation_count + 1,
                     !.failed = chat.failed \/ outcome = "exception",
                     !.node = should_continue(messages)]
    /\ UNCHANGED <<client, quick>>

(* the tools node, ToolNode(tools): one tool message for each tool call of
   the last message, and the edge back to the chat node *)
ToolsNode ==
    /\ chat.node = "tools"
    /\ chat' = [chat EXCEPT
                  !.messages = chat.messages \o
                      [i \in 1..chat.messages[Len(chat.messages)].tool_calls |->
                         Message("tool", 0)],
                  !.node = "advanced_chat"]
    /\ UNCHANGED <<client, quick>>

(* the invocations of the advanced chat graph *)
ChatNext ==
    \/ \E n \in 0..MaxCount : GraphInvoke(n)
    \/ \E outcome \in LlmOutcomes : advanced_chat_node(outcome)
    \/ ToolsNode

(* ---- quick_tool_call ---- *)

(* quick_tool_call(server_url, tool_name, arguments): SSEMCPClient(server_url)
   and __aenter__, which returns the client; connect() is next *)
QuickToolCall ==
    /\ quick.pc = "none"
    /\ nreaders = 0 /\ ~closed /\ caller.pc = "idle" /\ rpc.pc = "idle"
    /\ quick' = [quick EXCEPT !.pc = "connect"]
    /\ UNCHANGED <<client, chat>>

(* one quick_tool_call: its three calls in turn, the disconnect() of
   __aexit__, and the reader task of its client *)
QuickNext ==
    \/ QuickToolCall
    \/ quick.pc = "connect" /\ Connect
    \/ ConnectPoll
    \/ \E r \in ReaderIds : ReaderStart(r)
    \/ \E r \in ReaderIds, ok \in BOOLEAN : ReaderOpened(r, ok)
    \/ \E r \in ReaderIds : \E uri \in UrisOf(r) : ReaderLine(r, "endpoint", uri)
    \/ \E r \in ReaderIds, kind \in RpcStreamLines : ReaderLine(r, kind, "none")
    \/ \E r \in ReaderIds : ReaderEOF(r)
    \/ \E r \in ReaderIds : ReaderError(r)
    \/ \E r \in ReaderIds : ReaderCancelled(r)
    \/ quick.pc = "initialize" /\ \E name \in ToolNames, args \in ToolArgs :
                                      RpcCall("initialize", name, args)
    \/ quick.pc = "call_tool" /\ \E name \in ToolNames, args \in ToolArgs :
                                     RpcCall("call_tool", name, args)
    \/ \E resp \in Responses : RpcResponse(resp)
    \/ quick.pc = "exit" /\ Disconnect
    \/ DisconnectJoined
    \/ DisconnectFinish

Spec == Init /\ [][Next]_vars

(* the event loop runs every task that is ready: a created task gets its
   first step, a cancelled task is woken, a timer that has expired wakes
   its sleeper, and aclose() returns. The client makes no RPC call: none can
   be in flight during a connect(), which the one caller awaits *)
LiveSpec ==
    /\ Init /\ [][StreamNext]_vars
    /\ WF_vars(ConnectPoll)
    /\ \A r \in ReaderIds : WF_vars(ReaderStart(r))

HandlerSpec == Init /\ [][HandlerNext]_vars

HealthSpec == Init /\ [][HealthNext]_vars

ChatSpec == Init /\ [][ChatNext]_vars

QuickSpec == Init /\ [][QuickNext]_vars

(* ======================= reading a URL ======================= *)

(* the part of a URL before the "?" *)
PathOf(url) == Split(url, "?")[1]

(* the values of the query parameter key, in order *)
QueryValues(url, key) ==
    LET parts == Split(url, "?")
        params == IF Len(parts) < 2 THEN <<>> ELSE Split(parts[2], "&")
    IN SelectSeq([i \in 1..Len(params) |->
                    IF params[i] # <<>> /\ Head(params[i]) = key
                    THEN <<"value">> \o Tail(params[i]) ELSE <<>>],
                 LAMBDA v : v # <<>>)

(* ======================= properties ======================= *)

ConnectReturned(res) == ev.op = "connect" /\ ev.ret /\ ev.res = res
DisconnectReturned == ev.op = "disconnect" /\ ev.ret

(* C1: when disconnect() returns, whatever state it was called in, the state
   is Disconnected, session id, message endpoint and tool list are empty and
   the initialized flag is false *)
DisconnectClearsEverything ==
    DisconnectReturned =>
        /\ state = DISCONNECTED
        /\ session_id = NoneVal
        /\ message_endpoint = NoneVal
        /\ tools = <<>>
        /\ initialized = FALSE

(* C1 witness: a disconnect() called in state Connected has returned *)
DisconnectFromConnectedReturned ==
    DisconnectReturned /\ ev.info = CONNECTED

(* C2: while no initialize() has returned True since the client was created
   or last disconnected, a call of list_tools() or call_tool() raises in the
   step that makes it, sends no POST and changes no field of the client *)
ToolCallsGatedByInitialize ==
    [][(ev'.call /\ ev'.op \in {"list_tools", "call_tool"} /\ ~initOk) =>
          /\ ev'.ret
          /\ ev'.res = "raise_not_initialized"
          /\ ~ev'.post
          /\ rpc' = rpc
          /\ UNCHANGED <<fields, closed, sse_task, readers>>]_vars

(* C2 witness: call_tool() has raised on a client that is connected (connect()
   returned True, message endpoint set) and was never initialized *)
CallToolRefusedWhileConnected ==
    /\ ev.op = "call_tool" /\ ev.call /\ ev.res = "raise_not_initialized"
    /\ connOk /\ Truthy(message_endpoint) /\ ~initOk

(* C3: whenever connect() returns True, session id and message endpoint are
   non-empty and the message endpoint is the server's /messages path with
   exactly that session id as its sessionId query parameter *)
ConnectSuccessHasSession ==
    ConnectReturned("true") =>
        /\ Truthy(session_id)
        /\ Truthy(message_endpoint)
        /\ PathOf(message_endpoint) = <<ServerUrl, "/messages">>
        /\ QueryValues(message_endpoint, "sessionId=") = <<(<<"value">> \o session_id)>>

(* C3 witness: connect() has returned True after an endpoint event of its
   own stream set the session id *)
ConnectSucceededWithOwnSession ==
    /\ ConnectReturned("true") /\ ev.info = "endpoint_seen"
    /\ sid_src = sse_task /\ session_id = <<SidA[sse_task]>>

(* C4 (the claim as stated): at most one reader task of the client is alive *)
AtMostOneReaderAlive ==
    Cardinality({r \in ReaderIds : Alive(r)}) <= 1

(* C5 (the claim as stated): every change of the connection state is
   Disconnected to Connecting, Connecting to Connected, Connecting to Error,
   Connected to Error, or a change to Disconnected made by disconnect() *)
OnlyForwardTransitions ==
    [][state' # state =>
          \/ <<state, state'>> \in {<<DISCONNECTED, CONNECTING>>, <<CONNECTING, CONNECTED>>,
                                    <<CONNECTING, ERROR>>, <<CONNECTED, ERROR>>}
          \/ state' = DISCONNECTED /\ ev'.op = "disconnect"]_vars

(* C6 (the claim as stated): when connect() returns True, the session id was
   written by an endpoint event on the stream that this connect() opened *)
ConnectSuccessSessionIsFresh ==
    ConnectReturned("true") => sid_src = sse_task

(* C7 (the claim as stated): a connect() during which no endpoint event with
   a session id was dispatched returns False, in state Error *)
NoEndpointMeansFailure ==
    (ev.op = "connect" /\ ev.ret /\ ev.info \in {"no_endpoint", "no_endpoint_eof"}) =>
        ev.res = "false" /\ state = ERROR

(* C8: every connect() returns, after fewer than MaxWait further polls,
   whatever the stream does *)
ConnectAlwaysReturns ==
    /\ [](caller.pc = "connect_sleep" => caller.waited < MaxWait)
    /\ (caller.pc = "connect_sleep") ~> (caller.pc = "idle")

(* C8 witness: connect() has returned False after the server closed the
   stream (EOF) without an endpoint event *)
ConnectFailedAfterEOF ==
    /\ ConnectReturned("false") /\ ev.info = "no_endpoint_eof"
    /\ Done(sse_task)

(* C9 (the claim as stated): initialize() returns True only after a connect()
   that returned True with no disconnect() completed since, and with no
   message endpoint it fails without a POST *)
InitializeRequiresConnect ==
    /\ (ev.op = "initialize" /\ ev.ret /\ ev.res = "true") => connOk
    /\ (ev.op = "initialize" /\ ev.call /\ ~Truthy(message_endpoint)) =>
          ev.ret /\ ev.res = "false" /\ ~ev.post

(* C10: when the initialize request is answered with an error response,
   initialize() returns False and leaves the initialized flag, the connection
   state, the session id and the message endpoint as they were *)
InitializeErrorChangesNothing ==
    [][(rpc.pc = "posted" /\ rpc.op = "initialize" /\ rpc'.pc = "idle"
        /\ ev'.info = "error_response") =>
          /\ ev'.op = "initialize" /\ ev'.ret /\ ev'.res = "false"
          /\ UNCHANGED <<initialized, state, session_id, message_endpoint, tools>>]_vars

(* C10 witness: initialize() has returned False on an error response while
   the client is Connected with a session *)
InitializeRefusedByServer ==
    /\ ev.op = "initialize" /\ ev.ret /\ ev.info = "error_response"
    /\ state = CONNECTED /\ Truthy(session_id) /\ ~initialized

(* C11: a disconnect() called in the state the previous disconnect() left
   returns in the step that calls it, changes no field of the client and
   does not call the state-change handler *)
SecondDisconnectChangesNothing ==
    [][(DisconnectReturned /\ ev'.op = "disconnect" /\ ev'.call) =>
          /\ ev'.ret
          /\ state_cb' = <<>>
          /\ UNCHANGED <<fields, closed, sse_task, readers, nreaders>>]_vars

(* C11 witness: with a state-change handler registered, a second disconnect()
   has returned on a client that had been connected and disconnected *)
SecondDisconnectReturned ==
    /\ DisconnectReturned /\ ev.call /\ ev.res = "repeat"
    /\ on_connection_state_change /\ nreaders > 0

(* C12: the step in which a cancelled reader ends leaves the connection state
   as it is and calls no state-change handler, and no step of disconnect()
   itself sets the state to Error or calls the handler with Error *)
CancellationIsNotAnError ==
    [][/\ (\E r \in ReaderIds : readers[r] = "cancelling" /\ readers'[r] = "done") =>
             state' = state /\ state_cb' = <<>>
       /\ ev'.op = "disconnect" =>
             /\ state' \in {state, DISCONNECTED}
             /\ \A i \in 1..Len(state_cb') : state_cb'[i] # ERROR]_vars

(* C12 witness: with a state-change handler registered, disconnect() was
   called in state Connected while the only reader was reading; the reader
   has ended by the cancellation and the state is still Connected *)
ReaderCancelledMidRead ==
    /\ caller.pc = "disc_join" /\ caller.from = CONNECTED
    /\ nreaders = 1 /\ Done(1)
    /\ state = CONNECTED /\ on_connection_state_change

(* C13 (the claim as stated): while disconnect() closes the http client, no
   reader task that the client has started is still alive *)
NoReaderAliveAtClose ==
    caller.pc = "disc_close" => \A r \in ReaderIds : ~Alive(r)

(* C14: a stream that fails while the state is Connecting or Connected sets
   the state to Error, calls the registered state-change handler once, with
   Error, and ends its reader task; and a reader task is created only by the
   step that calls connect() *)
StreamErrorEndsInError ==
    [][/\ (ev'.info = "stream_error" /\ state \in {CONNECTING, CONNECTED}) =>
             /\ state' = ERROR
             /\ on_connection_state_change => state_cb' = <<ERROR>>
             /\ \E r \in ReaderIds :
                   /\ readers[r] \in {"opening", "reading"}
                   /\ readers' = [readers EXCEPT ![r] = "done"]
             /\ nreaders' = nreaders
       /\ (\E r \in ReaderIds : readers[r] = NoReader /\ readers'[r] # NoReader) =>
             ev'.op = "connect" /\ ev'.call]_vars

(* C14 witness: after a connect() that returned True, the stream of the only
   reader has failed: the state is Error, the handler was called with Error
   and the reader has ended *)
StreamFailedAfterConnect ==
    /\ ev = StreamError /\ connOk /\ nreaders = 1 /\ Done(1)
    /\ state = ERROR /\ state_cb = <<ERROR>> /\ on_connection_state_change

(* C15: the step that reads a data line of invalid JSON on the stream of a
   connect() in progress leaves the reader reading and the connection state,
   the session fields and the caller's wait as they were, and calls no
   handler *)
InvalidJsonLineIsSkipped ==
    [][(caller'.bad /\ ~caller.bad) =>
          /\ state' = state /\ state_cb' = <<>>
          /\ readers' = readers /\ readers[sse_task] = "reading"
          /\ caller'.pc = "connect_sleep" /\ caller'.waited = caller.waited
          /\ UNCHANGED <<session_id, message_endpoint, tools, initialized>>]_vars

(* C15 witness: connect() has returned True on a stream that carried a line
   of invalid JSON and then an endpoint event with a session id *)
ConnectSucceededAfterInvalidJson ==
    /\ ConnectReturned("true") /\ ev.info = "endpoint_seen_after_badjson"
    /\ sid_src = sse_task /\ state = CONNECTED

(* C16 (the claim as stated): outside disconnect(), the session id and the
   message endpoint are written only while they are unset, by a reader *)
SessionWrittenOnce ==
    [][(<<session_id, message_endpoint>>' # <<session_id, message_endpoint>>
        /\ ev'.op # "disconnect") =>
          /\ session_id = NoneVal /\ message_endpoint = NoneVal
          /\ ev'.op = "reader"]_vars

(* C17: while a state-change handler is registered, a step that changes the
   connection state calls it exactly once, with the new state, and a step
   that leaves the state as it is does not call it *)
HandlerCalledOncePerChange ==
    [][on_connection_state_change =>
          state_cb' = IF state' # state THEN <<state'>> ELSE <<>>]_vars

(* C17 witness: the registered handler was called with Error by a connect()
   that gave up waiting, after the stream was opened (state Connected) *)
HandlerCalledByFailedConnect ==
    /\ ConnectReturned("false") /\ on_connection_state_change
    /\ state = ERROR /\ state_cb = <<ERROR>>
    /\ \E r \in ReaderIds : readers[r] = "reading"

(* C18 (the claim as stated): while a notification handler is registered,
   the dispatch of every event other than endpoint calls it *)
HandlerCalledForEveryEvent ==
    [][(ev'.op = "reader" /\ ev'.res \in PlainEvents /\ on_notification) =>
          ev'.info = "notified"]_vars

(* C18 (amended): while a notification handler is registered, the dispatch
   of a notifications/message event calls it, and the dispatch of a ping or
   of an event with any other method does not *)
HandlerCalledForNotificationsOnly ==
    [][(ev'.op = "reader" /\ ev'.res \in PlainEvents /\ on_notification) =>
          (ev'.info = "notified" <=> ev'.res = "notification")]_vars

(* C18 witness: a notifications/message event was passed to the registered
   handler by a reader that goes on reading *)
NotificationDelivered ==
    /\ ev = Dispatched("notification", "n1", <<"n1">>) /\ on_notification
    /\ \E r \in ReaderIds : readers[r] = "reading"

(* C19 (the claim as stated): a response value that _send_request returns
   has exactly one of result and error *)
ExactlyOneOfResultAndError ==
    ev.resp.returned => (ev.resp.result <=> ev.resp.error = "absent")

(* C20: when the POST of list_tools() or call_tool() is answered with an
   error response, the call raises the failure that carries the server's
   error payload; when _send_request itself fails, the call raises another
   failure, which carries none *)
ErrorResponseRaisesWithPayload ==
    [][(rpc.pc = "posted" /\ rpc.op \in {"list_tools", "call_tool"} /\ rpc'.pc = "idle") =>
          /\ ev'.op = rpc.op /\ ev'.ret
          /\ (ev'.resp.returned /\ ev'.resp.error \in ErrorPayloads) =>
                ev'.res = "raise_protocol" /\ ev'.info = ev'.resp.error
          /\ ~ev'.resp.returned =>
                ev'.res = "raise_transport" /\ ev'.info \notin ErrorPayloads]_vars

(* C20 witness: call_tool() has raised with the payload of the server's
   error response on a client that is connected and initialized *)
CallToolRaisedServerError ==
    /\ ev.op = "call_tool" /\ ev.ret /\ ev.res = "raise_protocol"
    /\ ev.info = "unknown_tool" /\ ev.resp.error = "unknown_tool"
    /\ initialized /\ state = CONNECTED

(* C21 (the claim as stated): a call that returns a result was answered by a
   response whose id is the id of its request *)
ResultOnlyFromMatchingId ==
    (ev.ret /\ ev.resp.returned /\ ev.res \in {"true", "ok"}) => ev.resp.id = "same"

(* C22: health_check() never raises; it returns false when the server is
   unreachable, answers with a non-2xx status or with a body that is not
   JSON (or not an object), and true only for a body whose status is
   "healthy" *)
HealthCheckNeverRaises ==
    (ev.op = "health_check" /\ ev.ret) =>
        /\ ev.res \in {"true", "false"}
        /\ ev.info \in {"unreachable", "status500", "notjson", "nonobject"} => ev.res = "false"
        /\ ev.res = "true" => ev.info = "healthy"

(* C22 witness: a health check whose GET was answered with a body that is not
   JSON has returned false *)
HealthCheckFalseOnMalformedBody ==
    /\ ev.op = "health_check" /\ ev.ret /\ ~ev.call
    /\ ev.info = "notjson" /\ ev.res = "false"

(* C23 (the claim as stated): whenever the server answers GET /health with
   status "healthy", health_check() returns true, in every client state *)
HealthyServerGivesTrue ==
    (ev.op = "health_check" /\ ev.ret /\ ev.info = "healthy") => ev.res = "true"

(* C24: a list_tools() that succeeds leaves as the cached list exactly the
   names of the tools array of its response, in the order of the array, and
   nothing of the list cached before *)
CachedListIsResponseArray ==
    [][(rpc.pc = "posted" /\ rpc.op = "list_tools" /\ ev'.res = "ok") =>
          /\ Len(tools') = Len(ev'.resp.tools)
          /\ \A i \in 1..Len(tools') : tools'[i] = ev'.resp.tools[i].name]_vars

(* C24 witness: list_tools() has returned the two tools of a response, in the
   order of its array *)
ListToolsCachedTwoTools ==
    /\ ev.op = "list_tools" /\ ev.ret /\ ev.res = "ok"
    /\ Len(ev.resp.tools) = 2 /\ ev.resp.tools[1].name = "find_max"
    /\ tools = <<"find_max", "add_numbers">>

(* C25: a notifications/message event read while no notification handler is
   registered is dropped: the reader keeps reading, no field of the client
   changes and no handler is called; the step that registers a handler calls
   nothing, and a handler is called only in a step that began with it
   registered *)
NotificationWithoutHandlerIsDropped ==
    [][/\ (ev'.op = "reader" /\ ev'.res = "notification" /\ ~on_notification) =>
            /\ ev'.calls = <<>>
            /\ UNCHANGED <<fields, closed, sse_task, readers, nreaders, handlers, chat>>
       /\ (~on_notification /\ on_notification') => ev'.calls = <<>>
       /\ ev'.calls # <<>> => on_notification]_vars

(* C25 witness: a notification was read while no handler was registered, and
   the reader that read it goes on reading on a connected client *)
NotificationDroppedWithoutHandler ==
    /\ ev.op = "reader" /\ ev.res = "notification" /\ ev.data = "n1" /\ ev.calls = <<>>
    /\ ~on_notification /\ state = CONNECTED
    /\ \E r \in ReaderIds : r = sse_task /\ readers[r] = "reading"

(* C26: the notification handler is called in the very step that reads a
   notifications/message event, once, with the data of that event, and in
   no other step: the events of a stream reach the handler one by one as
   they are read, each at most once and unchanged *)
NotificationsDeliveredAsRead ==
    [][ev'.calls = IF ev'.op = "reader" /\ ev'.res = "notification" /\ on_notification
                   THEN <<ev'.data>>
                   ELSE <<>>]_vars

(* C26 witness: the registered handler was called once, with the data of the
   notification that was just read *)
NotificationDeliveredUnchanged ==
    /\ on_notification
    /\ ev.op = "reader" /\ ev.res = "notification" /\ ev.data = "n2" /\ ev.calls = <<"n2">>

(* C28 (the claim as stated): the dispatch of an event other than endpoint
   (a notifications/message event, well formed or not, a ping, an event with
   another method) leaves the session id, the message endpoint, the
   initialized flag, the cached tools and the connection state unchanged *)
NonEndpointDispatchChangesNothing ==
    [][(ev'.op = "reader" /\ ev'.res \in PlainEvents \cup {"badnotification"}) =>
          UNCHANGED <<session_id, message_endpoint, initialized, tools, state>>]_vars

(* C30 (the claim as stated): a JSON value that is not an object, and an
   endpoint event whose params is not an object, are skipped: the reader
   keeps reading and the state does not become Error *)
NonObjectEventIsSkipped ==
    [][(ev'.op = "reader" /\ ev'.res \in {"nonobject", "badparams"}) =>
          /\ readers' = readers
          /\ state' = ERROR => state = ERROR]_vars

(* C27 (the claim as stated): an invocation of the advanced chat graph that
   started with conversation_count = n and completed without an error ends
   with conversation_count = n + 1 *)
OneInvocationCountsOnce ==
    (chat.node = "END" /\ ~chat.failed) => chat.conversation_count = chat.n + 1

(* C29: the cached tools change only in the step in which list_tools()
   returns its list, and in a step of disconnect(), which empties them: a
   list_tools() that raises, connect(), initialize(), call_tool(),
   health_check() and the steps of the readers leave them as they are *)
ToolsChangeOnlyByListToolsOrDisconnect ==
    [][tools' # tools =>
          \/ ev'.op = "list_tools" /\ ev'.ret /\ ev'.res = "ok"
          \/ ev'.op = "disconnect" /\ tools' = <<>>]_vars

(* C29 witness: list_tools() has raised on an error response and the list
   cached by an earlier call is still there *)
ListToolsFailedKeepingCache ==
    /\ ev.op = "list_tools" /\ ev.ret /\ ev.res = "raise_protocol"
    /\ tools = <<"find_max", "add_numbers">>

(* C31: control leaves quick_tool_call (the `async with` block) only in the
   step in which the disconnect() of __aexit__ returns, with the client
   closed and Disconnected, whether call_tool returned a result or raised *)
QuickLeavesThroughDisconnect ==
    [][(quick.pc # "left" /\ quick'.pc = "left") =>
          /\ ev'.op = "disconnect" /\ ev'.ret
          /\ closed' /\ state' = DISCONNECTED
          /\ quick.outcome \in {"result", "raised"}]_vars

(* C31 witness: a quick_tool_call whose connect() returned False and whose
   call_tool therefore raised has left, after its disconnect() *)
QuickLeftAfterFailedConnect ==
    /\ quick.pc = "left" /\ quick.outcome = "raised"
    /\ ~quick.connected /\ ~quick.initialized
    /\ DisconnectReturned /\ closed

(* C32: a step of a background reader that follows the return of
   disconnect() leaves the state Disconnected and the session id and the
   message endpoint unset *)
ReadersQuietAfterDisconnect ==
    [][(DisconnectReturned /\ ev'.op = "reader") =>
          /\ state' = DISCONNECTED
          /\ session_id' = NoneVal
          /\ message_endpoint' = NoneVal]_vars

(* C33: an initialize() or list_tools() call that returns in the step after
   disconnect() returned leaves the initialized flag false and the cached
   tool list empty *)
CallsInFlightQuietAfterDisconnect ==
    [][(DisconnectReturned /\ ev'.op \in {"initialize", "list_tools"} /\ ev'.ret) =>
          ~initialized' /\ tools' = <<>>]_vars

(* C34: a step that replaces the session id of an initialized client clears
   the initialized flag *)
NewSessionIsNotInitialized ==
    [][(initialized /\ Truthy(session_id) /\ Truthy(session_id')
           /\ session_id' # session_id) =>
          ~initialized']_vars

(* C35: a step of a background reader that follows a connect() that
   returned False leaves the state Error and the session id unset *)
ReaderQuietAfterFailedConnect ==
    [][(ConnectReturned("false") /\ ev'.op = "reader") =>
          state' = ERROR /\ session_id' = NoneVal]_vars

(* C37: in the step in which connect() returns True the state is Connected *)
ConnectedWhenConnectSucceeds == ConnectReturned("true") => state = CONNECTED

(* C38: whenever the state is Connected a reader task of the client is
   running *)
ConnectedHasReader == state = CONNECTED => \E r \in ReaderIds : Alive(r)

(* C36: during a connect() issued after disconnect(), the reader task of
   that connect() opens a stream that the server accepts: the state becomes
   Connected and the reader reads on *)
ReconnectOpensAcceptedStream ==
    [][(/\ closed /\ caller.pc = "connect_sleep"
        /\ \E r \in ReaderIds : r = sse_task /\ readers[r] = "opening"
                                  /\ readers'[r] # "opening"
        /\ ev'.res = "server_accepts") =>
          /\ state' = CONNECTED
          /\ \E r \in ReaderIds : r = sse_task /\ readers'[r] = "reading"]_vars

(* C39: the dispatch of a notification on which the registered handler
   raises leaves the reader task reading and the state as it was *)
RaisingHandlerKeepsReader ==
    [][(/\ ev'.op = "reader" /\ ev'.res = "notification"
        /\ ev'.calls # <<>> /\ ev'.data \in HandlerRaisesOn) =>
          readers' = readers /\ state' = state]_vars

====
